---------------------------- MODULE Spec2Model ----------------------------
(***************************************************************************)
(* A model of the tracing_gc arena (src/src/lib.rs).                       *)
(*                                                                         *)
(* Boxes (GcBox) and indirection cells (Rc<UnsafeCell<GcAlloc>>) are       *)
(* created in pairs by Gc::new, so box n and cell n share the identifier   *)
(* n.  A box is heap memory owned by the arena list; a cell is heap memory *)
(* owned by the Rc count of the handles (Gc) that share it.  The box keeps *)
(* a RAW pointer to its cell (GcBox.alloc), which does not count.          *)
(***************************************************************************)
EXTENDS Integers, Sequences, FiniteSets, TLC

MaxAllocs == 3      \* boxes ever allocated in one run
MaxHandles == 1     \* handles to one cell held by the caller at a time
MaxKids == 1        \* child handles held by one value

Null == 0
Ids == 1..MaxAllocs

VARIABLES
    start,      \* Arena.start: head of the allocation list, or Null
    roots,      \* Arena.roots: Vec of box pointers
    nboxes,     \* number of Gc::new calls so far
    live,       \* live[b]: box b is allocated and its value not yet dropped
    mark,       \* GcBox.mark
    next,       \* GcBox.next
    prev,       \* GcBox.prev
    alloc,      \* GcBox.alloc: heap address of the cell made with the box
    value,      \* GcBox.value: the cells of the child handles it holds
    dropped,    \* how often the value's destructor has run
    inner,      \* GcAlloc.inner of cell c: a box, or Null for None
    handles,    \* number of Gc handles to cell c the caller holds
    result      \* what the last operation returned

vars == <<start, roots, nboxes, live, mark, next, prev, alloc, value,
          dropped, inner, handles, result>>

-----------------------------------------------------------------------------
(* Helpers *)

Range(s) == {s[i] : i \in 1..Len(s)}

Min(S) == CHOOSE x \in S : \A y \in S : x <= y

\* A set of identifiers as a sequence in ascending order.
RECURSIVE SetToSeq(_)
SetToSeq(S) == IF S = {} THEN <<>> ELSE <<Min(S)>> \o SetToSeq(S \ {Min(S)})

\* The Rc count of cell c is positive: a caller's handle or a handle stored
\* in the value of a box that has not been dropped keeps the cell allocated.
CellAlive(c, hs, lv, val) ==
    hs[c] > 0 \/ \E b \in Ids : lv[b] /\ c \in val[b]

\* The cell now occupying heap address a, or Null.  Cell c stays at alloc[c]
\* for as long as it is allocated.
CellAt(a, hs, lv, val) ==
    IF \E c \in Ids : alloc[c] = a /\ CellAlive(c, hs, lv, val)
    THEN CHOOSE c \in Ids : alloc[c] = a /\ CellAlive(c, hs, lv, val)
    ELSE Null

\* An iterator that ends after its first box.
Walk_StopsEarly(cur, nx, fuel) == IF cur = Null THEN <<>> ELSE <<cur>>

\* ArenaIter: the boxes met by following next from cur.  The walk is cut
\* after MaxAllocs + 1 steps so that it is defined on any link structure.
RECURSIVE Walk(_, _, _)
Walk(cur, nx, fuel) ==
    IF cur = Null \/ fuel = 0 THEN <<>>
    ELSE <<cur>> \o Walk(nx[cur], nx, fuel - 1)

Linked == Walk(start, next, MaxAllocs + 1)

-----------------------------------------------------------------------------
\* No trace call was observed.
NoTrace == [b \in Ids |-> 0]

Init ==
    /\ start = Null
    /\ roots = <<>>
    /\ nboxes = 0
    /\ live = [b \in Ids |-> FALSE]
    /\ mark = [b \in Ids |-> FALSE]
    /\ next = [b \in Ids |-> Null]
    /\ prev = [b \in Ids |-> Null]
    /\ alloc = [b \in Ids |-> Null]
    /\ value = [b \in Ids |-> {}]
    /\ dropped = [b \in Ids |-> 0]
    /\ inner = [c \in Ids |-> Null]
    /\ handles = [c \in Ids |-> 0]
    /\ result = [op |-> "new", ok |-> TRUE, cell |-> Null, out |-> <<>>,
                 total |-> 0, collected |-> 0,
                      visits |-> 0, traced |-> NoTrace,
                      wild |-> <<>>]

\* What an operation on a handle to cell c reports: ok is FALSE when the call
\* panicked.
Ret(op, ok, c) ==
    [op |-> op, ok |-> ok, cell |-> c, out |-> <<>>, total |-> 0, collected |-> 0,
                      visits |-> 0, traced |-> NoTrace,
                      wild |-> <<>>]

-----------------------------------------------------------------------------
(* Allocation: Gc::new and Arena::gc *)

\* An allocator that also hands out the address of a cell still in use.
FreeAddrs_InUse(n) == {n} \cup {alloc[b] : b \in {x \in Ids : live[x]}}

\* The addresses Rc::new may return for the cell made with box n: fresh
\* memory (named n), or the memory of a cell whose last handle was dropped,
\* which is free again also while the box made with it still points at it.
\* (Freed memory no box points at any more is as good as fresh.)
FreeAddrs(n) ==
    {n} \cup {alloc[b] : b \in {x \in Ids : live[x] /\
                    CellAt(alloc[x], handles, live, value) = Null}}

\* Arena::gc without the update of the old head's prev.
GcNew_PrevNotSet(n, a) ==
    /\ nboxes < MaxAllocs
    /\ n = nboxes + 1
    /\ a \in FreeAddrs(n)
    /\ nboxes' = n
    /\ live' = [live EXCEPT ![n] = TRUE]
    /\ mark' = [mark EXCEPT ![n] = FALSE]
    /\ value' = [value EXCEPT ![n] = {}]
    /\ inner' = [inner EXCEPT ![n] = n]
    /\ alloc' = [alloc EXCEPT ![n] = a]
    /\ handles' = [handles EXCEPT ![n] = 1]
    /\ prev' = [prev EXCEPT ![n] = Null]
    /\ next' = [next EXCEPT ![n] = start]
    /\ start' = n
    /\ UNCHANGED dropped

\* Arena::gc(value) with a value that holds no handles (children are stored
\* by StoreChild): Gc::new builds box and cell n pointing at each other, and
\* the box is linked in front of the list.  The caller gets one handle.
GcNew(n, a) ==
    /\ nboxes < MaxAllocs
    /\ n = nboxes + 1
    /\ a \in FreeAddrs(n)
    /\ nboxes' = n
    /\ live' = [live EXCEPT ![n] = TRUE]
    /\ mark' = [mark EXCEPT ![n] = FALSE]
    /\ value' = [value EXCEPT ![n] = {}]
    /\ inner' = [inner EXCEPT ![n] = n]
    /\ alloc' = [alloc EXCEPT ![n] = a]
    /\ handles' = [handles EXCEPT ![n] = 1]
    /\ prev' = IF start # Null THEN [prev EXCEPT ![start] = n, ![n] = Null]
               ELSE [prev EXCEPT ![n] = Null]
    /\ next' = [next EXCEPT ![n] = start]
    /\ start' = n
    /\ UNCHANGED dropped

\* Arena::gc
Gc ==
    \E n \in Ids, a \in Ids :
        /\ GcNew(n, a)
        /\ result' = Ret("gc", TRUE, Null)
        /\ UNCHANGED roots

\* Arena::root
Root ==
    \E n \in Ids, a \in Ids :
        /\ GcNew(n, a)
        /\ roots' = Append(roots, n)
        /\ result' = Ret("root", TRUE, Null)

-----------------------------------------------------------------------------
\* The cells the caller can name a handle to: those of the handles it holds
\* and of the handles stored in values it can borrow through them.
RECURSIVE NameFrom(_)
NameFrom(S) ==
    LET T == S \cup UNION {value[inner[p]] : p \in {q \in S : inner[q] # Null}}
    IN IF T = S THEN S ELSE NameFrom(T)

Nameable == NameFrom({h \in Ids : handles[h] > 0})

-----------------------------------------------------------------------------
(* Rooting *)

\* make_root without the search for an entry that is the box already.
MakeRootOf_NoSearch(rs, box) == IF box # Null THEN Append(rs, box) ELSE rs

\* The roots make_root leaves for a handle whose cell holds `box`.
MakeRootOf(rs, box) ==
    IF box # Null /\ ~(\E i \in 1..Len(rs) : rs[i] = box)
    THEN Append(rs, box)
    ELSE rs

\* Arena::make_root(&gc), gc a handle to cell c
MakeRoot ==
    \E c \in Nameable :
        /\ roots' = MakeRootOf(roots, inner[c])
        /\ result' = Ret("make_root", TRUE, c)
        /\ UNCHANGED <<start, nboxes, live, mark, next, prev, alloc, value,
                       dropped, inner, handles>>

\* The filter of unroot: the entries that are not `box`.
UnrootOf(rs, box) == SelectSeq(rs, LAMBDA p : p # box)

\* unroot unwraps the cell's inner once per root-set entry (the filter
\* closure), so it panics on an empty cell unless the root set is empty.
UnrootPanics(rs, box) == rs # <<>> /\ box = Null

\* Arena::unroot(&gc), gc a handle to cell c.  On a panic the assignment to
\* self.roots is not reached.
Unroot ==
    \E c \in Nameable :
        /\ roots' = IF UnrootPanics(roots, inner[c]) THEN roots
                    ELSE UnrootOf(roots, inner[c])
        /\ result' = Ret("unroot", ~UnrootPanics(roots, inner[c]), c)
        /\ UNCHANGED <<start, nboxes, live, mark, next, prev, alloc, value,
                       dropped, inner, handles>>

-----------------------------------------------------------------------------
(* Handles *)

\* Clone for Gc: one more handle on the same cell.
Clone ==
    \E c \in Nameable :
        /\ handles[c] < MaxHandles
        /\ handles' = [handles EXCEPT ![c] = @ + 1]
        /\ result' = Ret("clone", TRUE, Null)
        /\ UNCHANGED <<start, roots, nboxes, live, mark, next, prev, alloc,
                       value, dropped, inner>>

\* A caller's handle goes out of scope (the Rc count drops by one).
DropHandle ==
    \E c \in Ids :
        /\ handles[c] > 0
        /\ handles' = [handles EXCEPT ![c] = @ - 1]
        /\ result' = Ret("drop", TRUE, Null)
        /\ UNCHANGED <<start, roots, nboxes, live, mark, next, prev, alloc,
                       value, dropped, inner>>

\* Gc::try_as_ref on a handle to cell c: Some(&value) of the box the cell
\* holds, or None.
TryAsRef(c) == IF inner[c] # Null THEN <<"some", inner[c]>> ELSE <<"none", Null>>

\* Gc::try_as_mut
TryAsMut(c) == IF inner[c] # Null THEN <<"some", inner[c]>> ELSE <<"none", Null>>

\* expect(): the reference, or a panic with the "on collected object" text.
Expect(opt) == IF opt[1] = "some" THEN <<"ref", opt[2]>> ELSE <<"panic", Null>>

\* Gc::as_ref and Gc::as_mut
AsRef(c) == Expect(TryAsRef(c))
AsMut(c) == Expect(TryAsMut(c))

\* Deref and DerefMut for Gc
Deref(c) == AsRef(c)
DerefMut(c) == AsMut(c)

\* The six accessors read the cell of the handle and write nothing, so one
\* step applies each of them to a handle on cell c and reports what each did.
Access ==
    \E c \in Nameable :
        /\ result' = [op |-> "access", ok |-> TRUE, cell |-> c,
                      out |-> <<TryAsRef(c), AsRef(c), TryAsMut(c), AsMut(c),
                                Deref(c), DerefMut(c)>>,
                      total |-> 0, collected |-> 0,
                      visits |-> 0, traced |-> NoTrace,
                      wild |-> <<>>]
        /\ UNCHANGED <<start, roots, nboxes, live, mark, next, prev, alloc,
                       value, dropped, inner, handles>>

\* Value mutation through as_mut on a handle to cell p: a clone of a handle
\* to cell c is pushed into the Container held by the box of p.
StoreChild ==
    \E p \in Nameable, c \in Nameable :
        /\ inner[p] # Null
        /\ c \notin value[inner[p]]
        /\ Cardinality(value[inner[p]]) < MaxKids
        /\ value' = [value EXCEPT ![inner[p]] = @ \cup {c}]
        /\ result' = Ret("store", TRUE, Null)
        /\ UNCHANGED <<start, roots, nboxes, live, mark, next, prev, alloc,
                       dropped, inner, handles>>

\* Value mutation: the handle to cell c is removed from the Container held
\* by the box of p and dropped.
RemoveChild ==
    \E p \in Nameable, c \in Ids :
        /\ inner[p] # Null
        /\ c \in value[inner[p]]
        /\ value' = [value EXCEPT ![inner[p]] = @ \ {c}]
        /\ result' = Ret("remove", TRUE, Null)
        /\ UNCHANGED <<start, roots, nboxes, live, mark, next, prev, alloc,
                       dropped, inner, handles>>

-----------------------------------------------------------------------------
(* Gc::ptr_eq *)

\* Gc::ptr_eq(a, b), a a handle to cell c and b a handle to cell d: the two
\* handles point at the same cell memory.  (Called by the test same_alloc;
\* lib.rs does not define it.)
PtrEq(c, d) == alloc[c] = alloc[d]

\* One step asks for a pair of handles in both orders.
PtrEqCall ==
    \E c, d \in Nameable :
        /\ result' = [op |-> "ptr_eq", ok |-> TRUE, cell |-> c,
                      out |-> <<d, PtrEq(c, d), PtrEq(d, c)>>,
                      total |-> 0, collected |-> 0,
                      visits |-> 0, traced |-> NoTrace,
                      wild |-> <<>>]
        /\ UNCHANGED <<start, roots, nboxes, live, mark, next, prev, alloc,
                       value, dropped, inner, handles>>

-----------------------------------------------------------------------------
(* Arena::iter *)

\* Arena::iter() run to its end: the boxes ArenaIter::next yields, in order.
\* The iterator borrows the arena mutably, so no other call comes between.
Iter ==
    /\ result' = [op |-> "iter", ok |-> TRUE, cell |-> Null, out |-> Linked,
                  total |-> 0, collected |-> 0,
                      visits |-> 0, traced |-> NoTrace,
                      wild |-> <<>>]
    /\ UNCHANGED <<start, roots, nboxes, live, mark, next, prev, alloc, value,
                   dropped, inner, handles>>

-----------------------------------------------------------------------------
(* Arena::collect *)

\* Reset pass: unmark every box the iterator yields.
ResetMarks(m, list) == [b \in Ids |-> IF b \in Range(list) THEN FALSE ELSE m[b]]

\* Trace::trace of a value: it visits the handles it holds, in order.
TraceOf(b) == SetToSeq(value[b])

\* A visit that goes on into boxes that are marked already (it gives up
\* after twelve calls).
RECURSIVE VisitAll_MarkIgnored(_, _)
VisitAll_MarkIgnored(stack, st) ==
    IF st.panic \/ stack = <<>> \/ st.visits >= 12 THEN st
    ELSE LET c == Head(stack)
             b == inner[c]
             s1 == [st EXCEPT !.visits = @ + 1]
         IN IF b = Null THEN [s1 EXCEPT !.panic = TRUE]
            ELSE VisitAll_MarkIgnored(TraceOf(b) \o Tail(stack),
                          [s1 EXCEPT !.mark[b] = TRUE, !.traced[b] = @ + 1])

\* Visitor::visit for each handle of `stack` in turn; the handles a traced
\* value reports are visited before the rest (the recursion of visit).
\* st.mark are the mark bits, st.panic is set by unwrap() on an empty cell,
\* st.visits counts the calls of visit and st.traced[b] the calls of trace
\* on the value of box b.
RECURSIVE VisitAll(_, _)
VisitAll(stack, st) ==
    IF st.panic \/ stack = <<>> THEN st
    ELSE LET c == Head(stack)
             b == inner[c]
             s1 == [st EXCEPT !.visits = @ + 1]
         IN IF b = Null THEN [s1 EXCEPT !.panic = TRUE]
            ELSE IF s1.mark[b] THEN VisitAll(Tail(stack), s1)
            ELSE VisitAll(TraceOf(b) \o Tail(stack),
                          [s1 EXCEPT !.mark[b] = TRUE, !.traced[b] = @ + 1])

\* A mark pass that leaves the root set alone.
MarkRoots_Skipped(i, st) == st

\* Mark pass: every entry of the root set is marked and its value traced.
RECURSIVE MarkRoots(_, _)
MarkRoots(i, st) ==
    IF st.panic \/ i > Len(roots) THEN st
    ELSE MarkRoots(i + 1,
                   VisitAll(TraceOf(roots[i]),
                            [st EXCEPT !.mark[roots[i]] = TRUE,
                                       !.traced[roots[i]] = @ + 1]))

MarkPhase(m) ==
    MarkRoots(1, [mark |-> m, panic |-> FALSE, visits |-> 0, traced |-> NoTrace])

\* Unlink without the update of the head.
Unlink_HeadKept(s, t) ==
    LET p == s.prev[t]
        n == s.next[t]
    IN [s EXCEPT !.next = IF p # Null THEN [s.next EXCEPT ![p] = n] ELSE s.next,
                 !.prev = IF n # Null THEN [s.prev EXCEPT ![n] = p] ELSE s.prev]

\* Sweep of one unmarked box t, step 1: it is taken out of the list, and the
\* head moves on when t was the head.
Unlink(s, t) ==
    LET p == s.prev[t]
        n == s.next[t]
        nx1 == IF p # Null THEN [s.next EXCEPT ![p] = n] ELSE s.next
        pv1 == IF n # Null THEN [s.prev EXCEPT ![n] = p] ELSE s.prev
    IN [s EXCEPT !.start = IF s.start = t THEN n ELSE s.start,
                 !.next = nx1, !.prev = pv1]

\* The sweep of a box without the write to its cell.
Invalidate_Skipped(s, t) == s

\* Step 2: None is written through the box's raw pointer to its cell.  When
\* the cell was freed before (no handle left), the write lands on whatever
\* cell has been given that address since, or on free memory; s.wild lists
\* the boxes whose write went through such a dangling pointer.
Invalidate(s, t) ==
    LET c == CellAt(alloc[t], handles, s.live, s.value)
        s1 == IF CellAlive(t, handles, s.live, s.value) THEN s
              ELSE [s EXCEPT !.wild = Append(@, t)]
    IN IF c # Null THEN [s1 EXCEPT !.inner[c] = Null] ELSE s1

\* The drop of a box without the count of collected boxes.
DropBox_NoCount(s, t) ==
    [s EXCEPT !.live[t] = FALSE, !.dropped[t] = @ + 1, !.value[t] = {},
              !.next[t] = Null, !.prev[t] = Null, !.mark[t] = FALSE]

\* Step 3: Box::from_raw drops the box: the value's destructor runs, the
\* handles the value held are dropped with it, the memory is freed.
DropBox(s, t) ==
    [s EXCEPT !.live[t] = FALSE, !.dropped[t] = @ + 1, !.value[t] = {},
              !.next[t] = Null, !.prev[t] = Null, !.mark[t] = FALSE,
              !.collected = @ + 1]

SweepBox(s, t) == DropBox(Invalidate(Unlink(s, t), t), t)

\* ArenaIter::next: the successor is read off the box before it is yielded.
IterNext(s, t) == s.next[t]

\* A sweep pass that asks the box just handled for its successor.
RECURSIVE SweepFrom_NextReadLate(_, _)
SweepFrom_NextReadLate(cur, s) ==
    IF cur = Null THEN s
    ELSE LET s1 == [s EXCEPT !.seen = Append(@, cur)]
             s2 == IF s1.mark[cur] THEN s1 ELSE SweepBox(s1, cur)
         IN SweepFrom_NextReadLate(s2.next[cur], s2)

\* Sweep pass over the iterator started at cur: the iterator reads the
\* successor of cur and yields cur, and the loop body sweeps cur when it is
\* not marked.  s.seen lists the boxes the iterator has yielded.
RECURSIVE SweepFrom(_, _)
SweepFrom(cur, s) ==
    IF cur = Null THEN s
    ELSE LET after == IterNext(s, cur)
             s1 == [s EXCEPT !.seen = Append(@, cur)]
         IN SweepFrom(after, IF s1.mark[cur] THEN s1 ELSE SweepBox(s1, cur))

\* The arena after a collect that reaches its sweep pass with marks m.
SweepPhase(m) ==
    SweepFrom(start, [start |-> start, next |-> next, prev |-> prev,
                      mark |-> m, live |-> live, dropped |-> dropped,
                      value |-> value, inner |-> inner, collected |-> 0,
                      seen |-> <<>>, wild |-> <<>>])

\* Arena::collect.  A panic in the mark pass unwinds out of collect before
\* the sweep pass, leaving the mark bits as they were set so far.  Next to
\* what collect returns, the result records the calls of visit and trace
\* the mark pass made (a Trace implementation can count them) and the boxes
\* the sweep pass examined.
Collect ==
    \E ms \in {MarkPhase(ResetMarks(mark, Linked))} :
       IF ms.panic
       THEN /\ mark' = ms.mark
            /\ result' = [Ret("collect", FALSE, Null) EXCEPT
                              !.visits = ms.visits, !.traced = ms.traced]
            /\ UNCHANGED <<start, roots, nboxes, live, next, prev, alloc,
                           value, dropped, inner, handles>>
       ELSE \E sw \in {SweepPhase(ms.mark)} :
            /\ start' = sw.start
            /\ next' = sw.next
            /\ prev' = sw.prev
            /\ mark' = sw.mark
            /\ live' = sw.live
            /\ dropped' = sw.dropped
            /\ value' = sw.value
            /\ inner' = sw.inner
            /\ result' = [op |-> "collect", ok |-> TRUE, cell |-> Null,
                          out |-> sw.seen, total |-> Len(Linked),
                          collected |-> sw.collected,
                          visits |-> ms.visits, traced |-> ms.traced,
                          wild |-> sw.wild]
            /\ UNCHANGED <<roots, nboxes, alloc, handles>>

-----------------------------------------------------------------------------
Next ==
    \/ Gc
    \/ Root
    \/ MakeRoot
    \/ Unroot
    \/ Clone
    \/ DropHandle
    \/ Access
    \/ StoreChild
    \/ RemoveChild
    \/ Iter
    \/ Collect

Spec == Init /\ [][Next]_vars

\* An arena used for nothing but rounds of root, collect, unroot, collect
\* (the loop of the test `iterative`), with the accesses the test makes: a
\* round starts on an arena whose earlier rounds have ended, and the handle
\* of a round is dropped when the round has ended.
PipelineRoot == Linked = <<>> /\ Root

PipelineDrop == (\A c \in Ids : handles[c] > 0 => ~live[c]) /\ DropHandle

PipelineNext ==
    \/ PipelineRoot
    \/ Unroot
    \/ Collect
    \/ Access
    \/ PipelineDrop

SpecPipeline == Init /\ [][PipelineNext]_vars

\* The arena with the identity comparison of handles among its operations
\* (and without the accessors and the iterator, which change nothing).
IdentityNext ==
    \/ Gc
    \/ Root
    \/ MakeRoot
    \/ Unroot
    \/ Clone
    \/ DropHandle
    \/ StoreChild
    \/ RemoveChild
    \/ Collect
    \/ PtrEqCall

SpecIdentity == Init /\ [][IdentityNext]_vars

TypeOK ==
    /\ start \in Ids \cup {Null}
    /\ nboxes \in 0..MaxAllocs
    /\ Range(roots) \subseteq Ids
    /\ \A b \in Ids : dropped[b] \in 0..1 /\ inner[b] \in {Null, b}

-----------------------------------------------------------------------------
(* Vocabulary of the properties *)

\* Cell c is allocated (some handle to it exists).
CellLive(c) == CellAlive(c, handles, live, value)

\* The boxes linked in the arena.
LinkedSet == Range(Linked)

\* The boxes reachable from the root set through the child handles the
\* values report (a handle whose cell is empty leads nowhere).
RECURSIVE ReachFrom(_, _, _)
ReachFrom(S, val, inn) ==
    LET T == S \cup ({inn[c] : c \in UNION {val[b] : b \in S}} \ {Null})
    IN IF T = S THEN S ELSE ReachFrom(T, val, inn)

Reachable == ReachFrom(Range(roots), value, inner)

\* The step is a call of collect / a call of collect that returned.
CollectCalled == result'.op = "collect"
CollectReturned == result'.op = "collect" /\ result'.ok

\* Box b was swept by the step.
Swept(b) == live[b] /\ ~live'[b]

\* Every reference an accessor returned is to the value of box b.
AllReturn(out, b) ==
    /\ out[1] = <<"some", b>> /\ out[3] = <<"some", b>>
    /\ \A i \in {2, 4, 5, 6} : out[i] = <<"ref", b>>

\* The get forms panicked and the try forms returned None.
AllRefuse(out) ==
    /\ out[1] = <<"none", Null>> /\ out[3] = <<"none", Null>>
    /\ \A i \in {2, 4, 5, 6} : out[i] = <<"panic", Null>>

-----------------------------------------------------------------------------
(* C1 *)

\* C1: collect never sweeps a box that is reachable from the root set through
\* the handles the values hold, and when collect has returned, every handle
\* to such a box still leads to the box (try_as_ref returns its value).
C1_ReachablePreserved ==
    [][CollectReturned =>
         \A b \in Reachable :
            /\ ~Swept(b)
            /\ CellAlive(b, handles', live', value') => inner'[b] = b]_vars

\* The first half of C1 alone: no reachable box is swept.
ReachableNotSwept ==
    [][CollectCalled => \A b \in Reachable : ~Swept(b) /\ dropped'[b] = 0]_vars

-----------------------------------------------------------------------------
(* C2 *)

\* C2: a call of collect reclaims every box that is linked and not reachable
\* from the root set: the box is unlinked, its cell emptied and its value
\* destroyed, and no unreachable box stays linked.
C2_UnreachableReclaimed ==
    [][CollectCalled =>
         /\ \A b \in LinkedSet \ Reachable :
               /\ b \notin LinkedSet'
               /\ Swept(b) /\ dropped'[b] = 1
               /\ CellAlive(b, handles', live', value') => inner'[b] = Null
         /\ LinkedSet' \subseteq Reachable]_vars

\* C2 for the calls of collect that return.
UnreachableReclaimedOnReturn ==
    [][CollectReturned =>
         /\ \A b \in LinkedSet \ Reachable :
               /\ b \notin LinkedSet'
               /\ Swept(b) /\ dropped'[b] = 1
               /\ CellAlive(b, handles', live', value') => inner'[b] = Null
         /\ LinkedSet' \subseteq Reachable]_vars

-----------------------------------------------------------------------------
(* C3 *)

\* C3: every box in the root set when collect is called survives that
\* collect, whatever handles exist; when the rooted boxes are all the boxes
\* there are, collect returns total = their number and collected = 0.
C3_RootRetention ==
    [][CollectCalled =>
         /\ \A r \in Range(roots) :
               r \in LinkedSet' /\ live'[r] /\ dropped'[r] = 0
         /\ (LinkedSet = Range(roots)) =>
               /\ result'.ok
               /\ result'.total = Cardinality(Range(roots))
               /\ result'.collected = 0]_vars

\* C3 with the counts read off the calls of collect that return.
RootRetentionOnReturn ==
    [][CollectCalled =>
         /\ \A r \in Range(roots) :
               r \in LinkedSet' /\ live'[r] /\ dropped'[r] = 0
         /\ (result'.ok /\ LinkedSet = Range(roots)) =>
               /\ result'.total = Cardinality(Range(roots))
               /\ result'.collected = 0]_vars

-----------------------------------------------------------------------------
(* C4 *)

\* C4: collect never terminates abnormally: whatever the state, a call of
\* collect returns its {total, collected}.
C4_CollectNeverFails == result.op = "collect" => result.ok

-----------------------------------------------------------------------------
(* C5 *)

\* C5: a cell is emptied exactly when the box it was made for is swept: the
\* sweep empties it for every handle sharing it, no step empties a cell whose
\* box stays linked, and an empty cell never holds a box again.
C5_InvalidationSharedPermanent ==
    [][\A c \in 1..nboxes :
         /\ (Swept(c) /\ CellAlive(c, handles', live', value')) => inner'[c] = Null
         /\ (CellLive(c) /\ inner[c] # Null /\ inner'[c] = Null) => Swept(c)
         /\ inner[c] = Null => inner'[c] = Null]_vars

\* The parts of C5 the code keeps: a swept box leaves no handle that still
\* leads to it, and an empty cell stays empty.
SweptCellEmptiedForGood ==
    [][\A c \in 1..nboxes :
         /\ (Swept(c) /\ CellAlive(c, handles', live', value')) => inner'[c] = Null
         /\ inner[c] = Null => inner'[c] = Null]_vars

-----------------------------------------------------------------------------
(* C6 *)

\* C6: on a handle whose box has been collected the get forms and the
\* dereferences panic and the try forms return None; on a handle whose box
\* is live all six return the box's value; no accessor changes the arena,
\* the root set or a cell.
C6_LivenessCheckedAccess ==
    [][result'.op = "access" =>
         LET c == result'.cell
         IN /\ dropped[c] # 0 => AllRefuse(result'.out)
            /\ live[c] => AllReturn(result'.out, c)
            /\ UNCHANGED <<start, roots, nboxes, live, mark, next, prev, alloc,
                           value, dropped, inner, handles>>]_vars

\* C6 with liveness read off the cell, as the accessors do: they refuse on
\* an empty cell, and what they return otherwise is the value of a box that
\* has not been destroyed.
AccessFollowsCell ==
    [][result'.op = "access" =>
         LET c == result'.cell
         IN /\ dropped[c] # 0 => AllRefuse(result'.out)
            /\ inner[c] = Null => AllRefuse(result'.out)
            /\ inner[c] # Null => AllReturn(result'.out, c) /\ live[c]
            /\ UNCHANGED <<start, roots, nboxes, live, mark, next, prev, alloc,
                           value, dropped, inner, handles>>]_vars

-----------------------------------------------------------------------------
(* C7 *)

\* C7: a value is destroyed at most once; a box that leaves the list is
\* destroyed exactly once, in the collect that sweeps it and because it was
\* not reachable then; no box that is still linked has been destroyed.
C7_DestructorOnce ==
    [][UNCHANGED <<dropped, live, start, next>> \/
       LET before == LinkedSet
           after == LinkedSet'
           reach == Reachable
       IN \A b \in Ids :
            /\ dropped'[b] <= 1
            /\ dropped'[b] # dropped[b] =>
                  /\ CollectReturned
                  /\ b \in before /\ b \notin reach
            /\ (b \in before /\ b \notin after) =>
                  CollectReturned /\ dropped[b] = 0 /\ dropped'[b] = 1
            /\ b \in after => dropped'[b] = 0 /\ live'[b]]_vars

\* C7 is met: a collect has swept two boxes and kept one.
C7_Witness ==
    /\ result.op = "collect" /\ result.collected = 2 /\ result.total = 3
    /\ \E b \in Ids : dropped[b] = 1 /\ ~live[b] /\ b \notin LinkedSet
    /\ \E b \in Ids : dropped[b] = 0 /\ b \in LinkedSet

-----------------------------------------------------------------------------
(* C8 *)

\* C8: make_root and unroot on a handle whose box has been collected return
\* normally and change neither the root set nor the list nor any cell.
C8_RootingNeverFails ==
    [][(result'.op \in {"make_root", "unroot"} /\ dropped[result'.cell] # 0) =>
         /\ result'.ok
         /\ UNCHANGED <<roots, start, next, prev, live, inner>>]_vars

\* C8 for make_root alone.
MakeRootOnCollectedIsNoOp ==
    [][(result'.op = "make_root" /\ dropped[result'.cell] # 0) =>
         /\ result'.ok
         /\ UNCHANGED <<roots, start, next, prev, live, inner>>]_vars

-----------------------------------------------------------------------------
(* C9 *)

NoDup(rs) == \A i, j \in 1..Len(rs) : rs[i] = rs[j] => i = j

NothingSwept == \A b \in Ids : dropped[b] = 0

\* C9: the root set never holds a box twice; make_root on a live handle adds
\* its box once and changes nothing when the box is rooted already (so k
\* calls leave what one call leaves); one unroot on a live handle leaves no
\* entry for its box; and the collect that follows that unroot sweeps the box
\* if nothing reaches it.  That collect returns in every arena in which
\* nothing was swept before, as after allocate_rooted, make_root and unroot
\* calls alone.
C9_IdempotentRooting ==
    [][/\ NoDup(roots')
       /\ (result'.op = "make_root" /\ inner[result'.cell] # Null) =>
             LET b == inner[result'.cell]
             IN /\ b \in Range(roots) => roots' = roots
                /\ b \notin Range(roots) => roots' = Append(roots, b)
       /\ (result'.op = "unroot" /\ inner[result'.cell] # Null) =>
             result'.ok /\ inner[result'.cell] \notin Range(roots')
       /\ (result.op = "unroot" /\ result.ok /\ CollectCalled) =>
             LET b == inner[result.cell]
             IN (b # Null /\ b \notin Reachable) =>
                   /\ NothingSwept => result'.ok
                   /\ result'.ok => Swept(b)]_vars

\* C9 is met: make_root was called on a live handle whose box was in the
\* root set already (a box it had just added would be the last entry), and
\* the root set holds it once.
C9_Witness ==
    /\ result.op = "make_root" /\ result.ok
    /\ inner[result.cell] # Null
    /\ Len(roots) >= 2 /\ roots[1] = inner[result.cell]

-----------------------------------------------------------------------------
(* C10 *)

\* C10: unroot on a handle whose allocation is live returns normally, leaves
\* the root set without the handle's box and with every other entry
\* (unchanged when the box was not in it), and changes neither the list nor
\* a mark bit nor a cell; nothing is destroyed except by collect.
C10_UnrootExact ==
    [][/\ (result'.op = "unroot" /\ live[result'.cell]) =>
             LET b == result'.cell
             IN /\ result'.ok
                /\ Range(roots') = Range(roots) \ {b}
                /\ Len(roots') = Cardinality(Range(roots'))
                /\ b \notin Range(roots) => roots' = roots
                /\ UNCHANGED <<start, nboxes, live, mark, next, prev, alloc,
                               value, dropped, inner, handles>>
       /\ dropped' # dropped => CollectCalled]_vars

\* C10 for the handles whose cell still points at the box.
UnrootExactOnFilledCell ==
    [][/\ (result'.op = "unroot" /\ inner[result'.cell] # Null) =>
             LET b == inner[result'.cell]
             IN /\ result'.ok
                /\ Range(roots') = Range(roots) \ {b}
                /\ Len(roots') = Cardinality(Range(roots'))
                /\ b \notin Range(roots) => roots' = roots
                /\ UNCHANGED <<start, nboxes, live, mark, next, prev, alloc,
                               value, dropped, inner, handles>>
       /\ dropped' # dropped => CollectCalled]_vars

-----------------------------------------------------------------------------
(* C11 *)

\* C11: a collect that returns reports as total the number of boxes linked
\* when it was called and as collected the number of boxes it swept, so
\* 0 <= collected <= total, and the iterator yields total - collected boxes
\* right after it.  The list has that length until the next allocation (no
\* other operation changes it), so the next collect reports it as total.
C11_CountsExact ==
    [][/\ CollectReturned =>
             /\ result'.total = Len(Linked)
             /\ result'.collected = Cardinality({b \in Ids : Swept(b)})
             /\ 0 <= result'.collected
             /\ result'.collected <= result'.total
             /\ Len(Linked') = result'.total - result'.collected
       /\ (result.op = "collect" /\ result.ok /\ CollectReturned) =>
             result'.total = result.total - result.collected
       /\ (result'.op \notin {"gc", "root"} /\ ~CollectReturned) =>
             Len(Linked') = Len(Linked)]_vars

\* C11 is met: a collect of three boxes swept one, and two are yielded.
C11_Witness ==
    /\ result.op = "collect" /\ result.ok
    /\ result.total = 3 /\ result.collected = 1
    /\ Len(Linked) = 2

-----------------------------------------------------------------------------
(* C12 *)

\* C12: in an arena used for rounds of root, unroot and collect alone, for a
\* box b that is the only one linked and whose handle the caller holds: a
\* collect while b is rooted returns total 1, collected 0 and leaves b and
\* its cell alone; unroot on its handle empties the root set; the collect
\* after that returns total 1, collected 1, destroys b and empties its cell,
\* and every access through a handle to a swept box refuses.  This is so for
\* the first box of the arena and for every later one.
C12_Pipeline ==
    [][/\ \A b \in Ids :
            (Linked = <<b>> /\ handles[b] > 0) =>
               /\ (CollectCalled /\ roots = <<b>>) =>
                     /\ result'.ok
                     /\ result'.total = 1 /\ result'.collected = 0
                     /\ live'[b] /\ inner'[b] = b /\ Linked' = <<b>>
               /\ (result'.op = "unroot" /\ result'.cell = b) =>
                     result'.ok /\ roots' = <<>>
               /\ (CollectCalled /\ roots = <<>>) =>
                     /\ result'.ok
                     /\ result'.total = 1 /\ result'.collected = 1
                     /\ ~live'[b] /\ inner'[b] = Null /\ Linked' = <<>>
       /\ (result'.op = "access" /\ dropped[result'.cell] = 1) =>
             AllRefuse(result'.out)]_vars

\* C12 is met: the last round on one arena has ended as the first did, and
\* the handle of its box has been tried.
C12_Witness ==
    /\ nboxes = MaxAllocs /\ \A b \in Ids : dropped[b] = 1
    /\ result.op = "access" /\ result.cell = MaxAllocs
    /\ AllRefuse(result.out)
    /\ \A c \in Ids \ {MaxAllocs} : handles[c] = 0

-----------------------------------------------------------------------------
(* C13 *)

\* C13: the iterator yields exactly the boxes that were allocated and not
\* swept since, each once, the most recently allocated first; it yields
\* nothing in a new arena and nothing right after a collect that swept as
\* many boxes as it found.
C13_IterYieldsLive ==
    [][result'.op = "iter" =>
         LET out == result'.out
         IN /\ Range(out) = {b \in Ids : live[b]}
            /\ \A i, j \in 1..Len(out) : i < j => out[i] > out[j]
            /\ nboxes = 0 => out = <<>>
            /\ (result.op = "collect" /\ result.ok
                  /\ result.collected = result.total) => out = <<>>]_vars

\* C13 is met: of three boxes the middle one was swept, and the iterator
\* yields the other two, the younger first.
C13_Witness ==
    /\ result.op = "iter" /\ result.out = <<3, 1>>
    /\ dropped[2] = 1

-----------------------------------------------------------------------------
(* C14 *)

-----------------------------------------------------------------------------
(* C15 *)

RECURSIVE SumOf(_, _)
SumOf(S, f) ==
    IF S = {} THEN 0
    ELSE LET x == CHOOSE y \in S : TRUE IN f[x] + SumOf(S \ {x}, f)

\* The handles stored in the values of the boxes not yet destroyed.
Edges == SumOf(Ids, [b \in Ids |-> IF live[b] THEN Cardinality(value[b]) ELSE 0])

\* C15: whatever the value graph (self-references and cycles included), the
\* mark pass of a collect ends after a number of steps bounded by the size
\* of the graph: trace is called on boxes not yet destroyed only, no more
\* often than there are such boxes and root-set entries, and visit at most
\* once per stored handle and call of trace on its holder, so at most twice
\* the number of stored handles.
C15_MarkTerminates ==
    [][CollectCalled =>
         LET t == result'.traced
         IN /\ \A b \in Ids : t[b] > 0 => live[b]
            /\ SumOf(Ids, t) <= Cardinality({b \in Ids : live[b]}) + Len(roots)
            /\ result'.visits <=
                  SumOf(Ids, [b \in Ids |-> t[b] * Cardinality(value[b])])
            /\ result'.visits <= 2 * Edges]_vars

\* C15 is met: a collect has marked two boxes that hold handles to each
\* other, one of them rooted, and swept a third box.
C15_Witness ==
    /\ result.op = "collect" /\ result.ok /\ result.collected = 1
    /\ \E a, b \in Ids :
          /\ a # b /\ live[a] /\ live[b] /\ a \in Range(roots)
          /\ value[a] = {b} /\ value[b] = {a}
          /\ inner[a] = a /\ inner[b] = b
          /\ mark[a] /\ mark[b]
    /\ result.visits >= 2

-----------------------------------------------------------------------------
(* C16 *)

\* C16: within one collect, trace is called at most once on the value of any
\* box, entries of the root set included.
C16_MarkIdempotent ==
    [][CollectCalled => \A b \in Ids : result'.traced[b] <= 1]_vars

\* C16 for visit: a box is traced once through visit at most, and a second
\* time only as an entry of the root set.
TracedOnceBesideRoots ==
    [][CollectCalled =>
         \A b \in Ids :
            /\ result'.traced[b] <= 2
            /\ b \notin Range(roots) => result'.traced[b] <= 1]_vars

-----------------------------------------------------------------------------
(* C17 *)

\* C17: every entry of the root set is a box that has not been swept and is
\* linked in the list.
C17_RootsNeverDangle ==
    \A i \in 1..Len(roots) :
        /\ live[roots[i]] /\ dropped[roots[i]] = 0
        /\ roots[i] \in LinkedSet

\* C17 is met: with a box in the root set, make_root was called on the
\* handle of a box that an earlier collect had swept.
C17_Witness ==
    /\ result.op = "make_root" /\ dropped[result.cell] = 1
    /\ roots # <<>>

-----------------------------------------------------------------------------
(* C18 *)

\* The list from the head: next leads through every box not yet destroyed
\* once and ends at none, prev leads back, and the head has no prev.
WellFormed ==
    LET l == Linked
    IN /\ Len(l) <= MaxAllocs
       /\ NoDup(l)
       /\ Range(l) = {b \in Ids : live[b]}
       /\ start # Null => prev[start] = Null
       /\ \A i \in 1..Len(l) :
             /\ next[l[i]] = IF i < Len(l) THEN l[i + 1] ELSE Null
             /\ prev[l[i]] = IF i > 1 THEN l[i - 1] ELSE Null

\* C18: the list is well formed after every operation; after a collect that
\* returns, it is the old list without the swept boxes, in the old order (so
\* the head is the first survivor, or none), and no link of a survivor
\* points at a swept box.
C18_ListWellFormed ==
    [][\/ UNCHANGED <<start, next, prev, live>> /\ WellFormed
       \/ /\ WellFormed'
          /\ CollectReturned =>
                /\ Linked' = SelectSeq(Linked, LAMBDA b : live'[b])
                /\ start' = IF Linked' = <<>> THEN Null ELSE Head(Linked')
                /\ \A b \in LinkedSet' :
                      /\ next'[b] # Null => live'[next'[b]]
                      /\ prev'[b] # Null => live'[prev'[b]]]_vars

\* C18 is met: a collect has swept the head and the tail of a list of three
\* and the box between them is the list.
C18_Witness ==
    /\ result.op = "collect" /\ result.ok
    /\ Linked = <<2>> /\ dropped[3] = 1 /\ dropped[1] = 1
    /\ prev[2] = Null /\ next[2] = Null

-----------------------------------------------------------------------------
(* C19 *)

\* C19: the sweep pass of a collect examines the boxes that were linked when
\* it began, each once and in list order, whichever of them it unlinks and
\* destroys on the way; every box it examines was undestroyed when the pass
\* began (and a box is destroyed only when it is examined, so the iterator
\* never reads a destroyed one).
C19_SweepExaminesAll ==
    [][CollectReturned =>
         LET seen == result'.out
         IN /\ seen = Linked
            /\ NoDup(seen)
            /\ Len(seen) = result'.total
            /\ \A b \in Range(seen) : live[b]
            /\ \A b \in Ids : Swept(b) => b \in Range(seen)]_vars

\* C19 is met: the sweep destroyed the head and its successor and went on to
\* examine the third box, which it kept.
C19_Witness ==
    /\ result.op = "collect" /\ result.ok /\ result.out = <<3, 2, 1>>
    /\ dropped[3] = 1 /\ dropped[2] = 1 /\ live[1] /\ Linked = <<1>>

-----------------------------------------------------------------------------
(* C20 *)

\* What C20 says of every operation but the cells that collect may touch.
FrameOfStep ==
    /\ result'.op \in {"gc", "root"} =>
          LET n == nboxes'
          IN /\ Linked' = <<n>> \o Linked
             /\ roots' = IF result'.op = "root" THEN Append(roots, n) ELSE roots
             /\ \A b \in Ids \ {n} :
                   /\ value'[b] = value[b] /\ live'[b] = live[b]
                   /\ mark'[b] = mark[b] /\ dropped'[b] = dropped[b]
                   /\ inner'[b] = inner[b] /\ handles'[b] = handles[b]
    /\ result'.op \in {"clone", "make_root", "unroot"} =>
          UNCHANGED <<start, next, prev, live, value, dropped>>
    /\ CollectCalled =>
          /\ roots' = roots
          /\ \A b \in Ids : live'[b] =>
                value'[b] = value[b] /\ handles'[b] = handles[b]
    /\ Len(Linked') > Len(Linked) => result'.op \in {"gc", "root"}
    /\ Len(Linked') < Len(Linked) => CollectCalled
    /\ \A c \in Ids : (inner[c] # Null /\ inner'[c] = Null) => CollectCalled

\* C20: gc and root change nothing but the link of the new box at the head
\* (and root the root set); clone, make_root and unroot do not change the
\* list; collect leaves the root set, the values of the boxes it keeps and
\* the handles to them (their cells) unchanged; the list grows only in gc
\* and root and shrinks only in collect, and a cell is emptied only during
\* collect.
C20_Frame ==
    [][/\ FrameOfStep
       /\ CollectCalled =>
             \A b \in Ids : live'[b] => inner'[b] = inner[b]]_vars

\* C20 without the cells of the boxes that collect keeps.
FrameBesideCells == [][FrameOfStep]_vars

-----------------------------------------------------------------------------
(* C21 *)

\* C21: the cell made with a box stays allocated for as long as the box is
\* linked, so that every write of None through a box's back-reference
\* during a sweep lands on that cell: also when all handles to the box were
\* dropped before the collect, and when the last one was stored in a value
\* that the same sweep destroyed earlier.
C21_BackReferenceValid ==
    [][/\ \A b \in Ids : live'[b] => CellAlive(b, handles', live', value')
       /\ CollectReturned => result'.wild = <<>>]_vars

=============================================================================
